---------------------------- MODULE Spec2Model ----------------------------
(***************************************************************************)
(* compile-time: procedural macros that splice the compile time and the    *)
(* rustc version into the program as literals.                             *)
(*                                                                         *)
(* Two process-wide lazy cells (COMPILE_TIME, RUSTC_VERSION) are forced by *)
(* the first macro expansion that dereferences them; every macro is a pure *)
(* function of the cell's value.  Strings are modelled as sequences of     *)
(* one-character strings, so that formatting and parsing are computed.     *)
(***************************************************************************)
EXTENDS Integers, Sequences, FiniteSets, TLC

\* Number of expansion threads that may run macros at the same time.
NumSites == 2
\* Number of changes of the host environment (clock advance, toolchain
\* replacement) during one build.
MaxEnvSteps == 2
\* Host clock resolution: readings per second (the code reads nanoseconds).
SubsPerSecond == 2

Sites == 1..NumSites

-----------------------------------------------------------------------------
(* Character strings *)

DigitChars == <<"0", "1", "2", "3", "4", "5", "6", "7", "8", "9">>

DigitSet == {DigitChars[i] : i \in 1..10}

LetterSet ==
  {"a", "b", "c", "d", "e", "f", "g", "h", "i", "j", "k", "l", "m", "n", "o",
   "p", "q", "r", "s", "t", "u", "v", "w", "x", "y", "z",
   "A", "B", "C", "D", "E", "F", "G", "H", "I", "J", "K", "L", "M", "N", "O",
   "P", "Q", "R", "S", "T", "U", "V", "W", "X", "Y", "Z"}

DigitValue(c) == CHOOSE d \in 0..9 : DigitChars[d + 1] = c

\* Display of an unsigned integer: decimal, no padding ("{}").
RECURSIVE NatToStr(_)
NatToStr(n) ==
  IF n < 10 THEN <<DigitChars[n + 1]>>
  ELSE NatToStr(n \div 10) \o <<DigitChars[(n % 10) + 1]>>

\* Decimal value of a non-empty digit string (str::parse::<u64>).
RECURSIVE StrToNat(_)
StrToNat(s) ==
  IF Len(s) = 1 THEN DigitValue(s[1])
  ELSE 10 * StrToNat(SubSeq(s, 1, Len(s) - 1)) + DigitValue(s[Len(s)])

Zeros(k) == [i \in 1..k |-> "0"]

\* Number formatting that forgets the padding.
PadZeroNone(n, width) == NatToStr(n)

\* time's zero-padded number formatting: at least `width` digits.
PadZero(n, width) ==
  LET s == NatToStr(n)
  IN  IF Len(s) >= width THEN s ELSE Zeros(width - Len(s)) \o s

\* Smallest index >= from whose character is in `chars`; Len(s) + 1 if none.
Find(s, chars, from) ==
  IF \E i \in from..Len(s) : s[i] \in chars
  THEN CHOOSE i \in from..Len(s) :
         /\ s[i] \in chars
         /\ \A j \in from..(i - 1) : s[j] \notin chars
  ELSE Len(s) + 1

\* The pieces of s between the occurrences of the separator sep.
RECURSIVE Split(_, _)
Split(s, sep) ==
  LET i == Find(s, {sep}, 1)
  IN  IF i > Len(s) THEN <<s>>
      ELSE <<SubSeq(s, 1, i - 1)>> \o Split(SubSeq(s, i + 1, Len(s)), sep)

-----------------------------------------------------------------------------
(* The `time` crate, as far as the macros use it *)

\* time::Month, in calendar order; the Debug rendering is the variant name.
MonthNames ==
  <<"January", "February", "March", "April", "May", "June", "July",
    "August", "September", "October", "November", "December">>

\* format!("{:?}", month): the variant name of month number m.
MonthDebug(m) == MonthNames[m]

\* u8::from(month): the number of the variant named `name`.
MonthNumber(name) == CHOOSE m \in 1..12 : MonthNames[m] = name

is_leap_year(year) == year % 4 = 0 /\ (year % 25 # 0 \/ year % 16 = 0)

days_in_year(year) == IF is_leap_year(year) THEN 366 ELSE 365

days_in_year_month(year, m) ==
  IF m \in {1, 3, 5, 7, 8, 10, 12} THEN 31
  ELSE IF m \in {4, 6, 9, 11} THEN 30
  ELSE IF is_leap_year(year) THEN 29 ELSE 28

\* Days of the year before month m begins.
RECURSIVE DaysBeforeMonth(_, _)
DaysBeforeMonth(year, m) ==
  IF m = 1 THEN 0
  ELSE DaysBeforeMonth(year, m - 1) + days_in_year_month(year, m - 1)

\* Date::from_julian_day: a Date is stored as (year, ordinal day of year).
from_julian_day(julian_day) ==
  LET z == julian_day - 1721119
      g == 100 * z - 25
      a == g \div 3652425
      b == a - (a \div 4)
      year == (100 * b + g) \div 36525
      ordinal == b + z - ((36525 * year) \div 100)
      shifted == ordinal + (IF is_leap_year(year) THEN 60 ELSE 59)
  IN  IF shifted > days_in_year(year)
      THEN [year |-> year + 1, ordinal |-> shifted - days_in_year(year)]
      ELSE IF shifted < 1
      THEN [year |-> year - 1, ordinal |-> shifted + days_in_year(year - 1)]
      ELSE [year |-> year, ordinal |-> shifted]

\* Date::to_julian_day.
to_julian_day(date) ==
  LET y == date.year - 1
  IN  date.ordinal + 365 * y + (y \div 4) - (y \div 100) + (y \div 400)
        + 1721425

\* Date::month: the month whose days contain the ordinal.
DateMonth(date) ==
  CHOOSE m \in 1..12 :
    /\ DaysBeforeMonth(date.year, m) < date.ordinal
    /\ date.ordinal <= DaysBeforeMonth(date.year, m)
                         + days_in_year_month(date.year, m)

\* Date::day counted from zero.
DateDayZeroBased(date) ==
  date.ordinal - DaysBeforeMonth(date.year, DateMonth(date)) - 1

\* Date::day.
DateDay(date) == date.ordinal - DaysBeforeMonth(date.year, DateMonth(date))

\* A reading taken in a local time zone one hour east of UTC.
now_local(reading) ==
  LET days == (reading.secs + 3600) \div 86400
      sod  == (reading.secs + 3600) % 86400
      date == from_julian_day(2440588 + days)
  IN  [year |-> date.year, ordinal |-> date.ordinal,
       hour |-> sod \div 3600, minute |-> (sod % 3600) \div 60,
       second |-> sod % 60, sub |-> reading.sub]

\* OffsetDateTime::now_utc for a host clock reading (seconds and sub-second
\* part since the UNIX epoch): UNIX_EPOCH + duration, offset UTC.
now_utc(reading) ==
  LET days == reading.secs \div 86400
      sod  == reading.secs % 86400
      date == from_julian_day(2440588 + days)
  IN  [year |-> date.year, ordinal |-> date.ordinal,
       hour |-> sod \div 3600, minute |-> (sod % 3600) \div 60,
       second |-> sod % 60, sub |-> reading.sub]

\* OffsetDateTime::date and OffsetDateTime::time.
DateOf(dt) == [year |-> dt.year, ordinal |-> dt.ordinal]

TimeOf(dt) ==
  [hour |-> dt.hour, minute |-> dt.minute, second |-> dt.second,
   sub |-> dt.sub]

\* OffsetDateTime::unix_timestamp (offset is UTC).
unix_timestamp(dt) ==
  (to_julian_day(DateOf(dt)) - 2440588) * 86400
    + dt.hour * 3600 + dt.minute * 60 + dt.second

\* date.format("[year]-[month]-[day]")
FormatDate(date) ==
  PadZero(date.year, 4) \o <<"-">> \o PadZero(DateMonth(date), 2)
    \o <<"-">> \o PadZero(DateDay(date), 2)

\* time.format("[hour]:[minute]:[second]")
FormatTime(time) ==
  PadZero(time.hour, 2) \o <<":">> \o PadZero(time.minute, 2)
    \o <<":">> \o PadZero(time.second, 2)

\* The combined format with a space for the "T".
FormatDateTimeSpace(dt) ==
  PadZero(dt.year, 4) \o <<"-">> \o PadZero(DateMonth(DateOf(dt)), 2)
    \o <<"-">> \o PadZero(DateDay(DateOf(dt)), 2) \o <<" ">>
    \o PadZero(dt.hour, 2) \o <<":">> \o PadZero(dt.minute, 2)
    \o <<":">> \o PadZero(dt.second, 2) \o <<"Z">>

\* datetime.format("[year]-[month]-[day]T[hour]:[minute]:[second]Z")
FormatDateTime(dt) ==
  PadZero(dt.year, 4) \o <<"-">> \o PadZero(DateMonth(DateOf(dt)), 2)
    \o <<"-">> \o PadZero(DateDay(DateOf(dt)), 2) \o <<"T">>
    \o PadZero(dt.hour, 2) \o <<":">> \o PadZero(dt.minute, 2)
    \o <<":">> \o PadZero(dt.second, 2) \o <<"Z">>

\* Date::from_calendar_date(year, Month::name, day) succeeds.
from_calendar_date_ok(year, name, day) ==
  /\ year \in -9999..9999
  /\ \E m \in 1..12 : MonthNames[m] = name
  /\ day >= 1
  /\ day <= days_in_year_month(year, MonthNumber(name))

\* Time::from_hms(hour, minute, second) succeeds.
from_hms_ok(hour, minute, second) ==
  /\ hour \in 0..23
  /\ minute \in 0..59
  /\ second \in 0..59

-----------------------------------------------------------------------------
(* The `semver` and `rustc_version` crates, as far as the macros use them *)

IdentChars == DigitSet \cup LetterSet \cup {"-"}

AllDigits(s) == \A i \in 1..Len(s) : s[i] \in DigitSet

\* A numeric version part: digits, without a leading zero.
NumericOk(s) ==
  /\ Len(s) > 0
  /\ AllDigits(s)
  /\ (Len(s) > 1 => s[1] # "0")

\* semver::Prerelease::new succeeds on a non-empty string: dot-separated
\* non-empty identifiers of [0-9A-Za-z-], numeric ones without leading zero.
PrereleaseOk(s) ==
  /\ \A i \in 1..Len(s) : s[i] \in IdentChars \cup {"."}
  /\ LET parts == Split(s, ".")
     IN  \A k \in 1..Len(parts) :
           /\ Len(parts[k]) > 0
           /\ (AllDigits(parts[k]) /\ Len(parts[k]) > 1 => parts[k][1] # "0")

\* semver::BuildMetadata::new succeeds on a non-empty string: dot-separated
\* non-empty identifiers of [0-9A-Za-z-]; leading zeros are allowed.
BuildMetadataOk(s) ==
  /\ \A i \in 1..Len(s) : s[i] \in IdentChars \cup {"."}
  /\ LET parts == Split(s, ".")
     IN  \A k \in 1..Len(parts) : Len(parts[k]) > 0

\* semver::Version::parse: [ok |-> TRUE, version |-> ...] or [ok |-> FALSE].
VersionParse(s) ==
  LET d1 == Find(s, {"."}, 1)
      d2 == Find(s, {"."}, d1 + 1)
      pe == Find(s, {"-", "+"}, d2 + 1)
      be == IF pe <= Len(s) /\ s[pe] = "-"
            THEN Find(s, {"+"}, pe + 1) ELSE pe
      majorS == SubSeq(s, 1, d1 - 1)
      minorS == SubSeq(s, d1 + 1, d2 - 1)
      patchS == SubSeq(s, d2 + 1, pe - 1)
      preS   == IF pe < be THEN SubSeq(s, pe + 1, be - 1) ELSE <<>>
      buildS == IF be <= Len(s) THEN SubSeq(s, be + 1, Len(s)) ELSE <<>>
  IN  IF /\ d1 <= Len(s)
         /\ d2 <= Len(s)
         /\ NumericOk(majorS) /\ NumericOk(minorS) /\ NumericOk(patchS)
         /\ (pe < be => Len(preS) > 0 /\ PrereleaseOk(preS))
         /\ (be <= Len(s) => Len(buildS) > 0 /\ BuildMetadataOk(buildS))
      THEN [ok |-> TRUE,
            version |-> [major |-> StrToNat(majorS),
                         minor |-> StrToNat(minorS),
                         patch |-> StrToNat(patchS),
                         pre |-> preS, build |-> buildS]]
      ELSE [ok |-> FALSE]

\* Display of semver::Version (Version::to_string).
VersionToString(v) ==
  NatToStr(v.major) \o <<".">> \o NatToStr(v.minor) \o <<".">>
    \o NatToStr(v.patch)
    \o (IF Len(v.pre) > 0 THEN <<"-">> \o v.pre ELSE <<>>)
    \o (IF Len(v.build) > 0 THEN <<"+">> \o v.build ELSE <<>>)

\* What running `rustc -vV` on the host can do: fail to start
\* ("spawn_failed"), exit with a failure ("exit_failure"), print no
\* "release:" line ("no_release_line"), or print a release string
\* ("printed").
\* rustc_version::version(): Result<Version, Error>.
version(host) ==
  IF host.kind = "spawn_failed"
  THEN [ok |-> FALSE, err |-> "CouldNotExecuteCommand"]
  ELSE IF host.kind = "exit_failure"
  THEN [ok |-> FALSE, err |-> "CommandError"]
  ELSE IF host.kind = "no_release_line"
  THEN [ok |-> FALSE, err |-> "UnexpectedVersionFormat"]
  ELSE LET p == VersionParse(host.release)
       IN  IF p.ok THEN p ELSE [ok |-> FALSE, err |-> "SemVerError"]

-----------------------------------------------------------------------------
(* State *)

VARIABLES
  clock,      \* host clock: [secs, sub] since the UNIX epoch
  rustc,      \* what running the host's rustc does now
  envSteps,   \* number of host environment changes so far
  cells,      \* the two Lazy statics: cell name -> [state, value]
  unit,       \* the macros the crate being compiled invokes
  pc,         \* per site: "idle", "deref", "init", "publish"
  tag,        \* per site: the macro being expanded, or "none"
  queries,    \* cell name -> number of host queries performed for it
  seen,       \* cell name -> values macro bodies got from dereferencing it
  emitted,    \* macro name -> token streams (or panics) its expansions gave
  repeated,   \* cell name -> a macro returned again after the host changed
  before,     \* host clock sample taken right before the build
  after       \* host clock sample taken by the test run after the build

vars ==
  <<clock, rustc, envSteps, cells, unit, pc, tag, queries, seen, emitted,
    repeated, before, after>>

TimeMacros ==
  {"date", "date_str", "time", "time_str", "datetime", "datetime_str", "unix"}

VersionMacros ==
  {"rustc_version", "rustc_version_str", "rustc_version_major",
   "rustc_version_minor", "rustc_version_patch", "rustc_version_pre",
   "rustc_version_build"}

Macros == TimeMacros \cup VersionMacros

CellNames == {"COMPILE_TIME", "RUSTC_VERSION"}

\* Crates that invoke the macros, each given by the macros its source
\* invokes: the crate-level example and the examples of the macros' own
\* documentation, which are compiled as programs.
ExampleUnits ==
  {{"datetime_str", "rustc_version_str"},
   {"date", "date_str"},
   {"time", "time_str"},
   {"datetime", "datetime_str"},
   {"date_str", "time_str", "datetime_str"},
   {"datetime", "unix"},
   {"rustc_version", "rustc_version_major"},
   {"rustc_version", "rustc_version_minor"},
   {"rustc_version", "rustc_version_patch"},
   {"rustc_version", "rustc_version_pre"},
   {"rustc_version", "rustc_version_build"}}

\* Crates that invoke every time macro, every version macro, or every macro
\* whose expansion carries a fallback branch.
ViewUnits ==
  {TimeMacros, VersionMacros, {"date", "time", "datetime", "rustc_version"}}

\* Every macro dereferencing the version static.
CellOfOneStatic(m) == "RUSTC_VERSION"

\* The static a macro dereferences.
CellOf(m) == IF m \in TimeMacros THEN "COMPILE_TIME" ELSE "RUSTC_VERSION"

NoValue == [none |-> TRUE]

NoSample == [none |-> TRUE]

\* Clock readings at which a build may start: the last reading of a second
\* that ends a day, a month, a leap day or a year, and of ordinary seconds.
\* Each is paired with the toolchain installed on that host.
Hosts ==
  {[secs |-> 86399, rustc |-> [kind |-> "spawn_failed"]],
   [secs |-> 1709164799, rustc |-> [kind |-> "exit_failure"]],
   [secs |-> 1704067199, rustc |-> [kind |-> "no_release_line"]],
   [secs |-> 1709251199,
    rustc |-> [kind |-> "printed", release |-> <<"1", ".", "8", "0">>]],
   [secs |-> 1740787199,
    rustc |-> [kind |-> "printed",
               release |-> <<"1", ".", "8", "0", ".", "0", "-", "0", "1">>]],
   [secs |-> 1709647711,
    rustc |-> [kind |-> "printed",
               release |-> <<"1", ".", "7", "8", ".", "0">>]],
   [secs |-> 951868799,
    rustc |-> [kind |-> "printed",
               release |-> <<"1", ".", "7", "9", ".", "0", "-", "b", "e", "t",
                             "a", ".", "2", "+", "a", "b", "c", "1", "2",
                             "3">>]],
   [secs |-> 1111111199,
    rustc |-> [kind |-> "printed",
               release |-> <<"1", ".", "7", "9", ".", "0", "-", "b", "e", "t",
                             "a", ".", "2">>]],
   [secs |-> 1234567919,
    rustc |-> [kind |-> "printed",
               release |-> <<"1", "0", ".", "0", ".", "1", "2", "+", "0", "0",
                             "7">>]]}

\* What a change of the host's toolchain leaves: rustc removed, or the
\* stable release installed.
ToolchainsAfterChange ==
  {[kind |-> "spawn_failed"],
   [kind |-> "printed", release |-> <<"1", ".", "7", "8", ".", "0">>]}

\* Lazy::new(OffsetDateTime::now_utc) / Lazy::new(rustc_version::version):
\* the initialiser of each static, run against the host as it is now.
HostQuery(c) ==
  IF c = "COMPILE_TIME" THEN now_utc(clock) ELSE version(rustc)

\* An initialisation guard that lets in every caller until the cell is
\* complete.
MustInitRacy(cell) == cell.state # "complete"

\* once_cell: the cell must be initialised by the caller that finds it so.
MustInit(cell) == cell.state = "incomplete"

\* once_cell: the cell's value may be read.
IsReady(cell) == cell.state = "complete"

\* A dereference that runs the initialiser every time.
ForceFresh(c) == HostQuery(c)

\* Lazy::deref of a ready cell: the memoized value.
Force(c) == cells[c].value

InitWith(units) ==
  /\ \E h \in Hosts :
       /\ clock = [secs |-> h.secs, sub |-> SubsPerSecond - 1]
       /\ rustc = h.rustc
  /\ envSteps = 0
  /\ cells = [c \in CellNames |-> [state |-> "incomplete", value |-> NoValue]]
  /\ unit \in units
  /\ pc = [t \in Sites |-> "idle"]
  /\ tag = [t \in Sites |-> "none"]
  /\ queries = [c \in CellNames |-> 0]
  /\ seen = [c \in CellNames |-> {}]
  /\ emitted = [m \in Macros |-> {}]
  /\ repeated = [c \in CellNames |-> FALSE]
  /\ before = clock
  /\ after = NoSample

\* A build of one of the example crates.
Init == InitWith(ExampleUnits)

\* A build of a crate that uses every view of one static.
InitViews == InitWith(ViewUnits)

-----------------------------------------------------------------------------
(* Host environment *)

\* The host clock advances by one reading.
Tick ==
  /\ envSteps < MaxEnvSteps
  /\ envSteps' = envSteps + 1
  /\ clock' = IF clock.sub + 1 < SubsPerSecond
              THEN [clock EXCEPT !.sub = @ + 1]
              ELSE [secs |-> clock.secs + 1, sub |-> 0]
  /\ UNCHANGED <<rustc, cells, unit, pc, tag, queries, seen, emitted,
                 repeated, before, after>>

\* The host's rustc is replaced, repaired or broken.
ToolchainChange ==
  /\ envSteps < MaxEnvSteps
  /\ envSteps' = envSteps + 1
  /\ rustc' \in ToolchainsAfterChange \ {rustc}
  /\ UNCHANGED <<clock, cells, unit, pc, tag, queries, seen, emitted,
                 repeated, before, after>>

-----------------------------------------------------------------------------
(* Macro invocation and the Lazy statics *)

\* Site t is the free expansion thread the next macro call is handed to.
NextFree(t) ==
  /\ pc[t] = "idle"
  /\ \A u \in 1..(t - 1) : pc[u] # "idle"

\* Lazy::deref by a macro called at site t, cell not initialised: this
\* caller takes the initialisation.
LazyClaim(t) ==
  /\ NextFree(t)
  /\ after = NoSample
  /\ \E m \in unit :
       /\ MustInit(cells[CellOf(m)])
       /\ cells' = [cells EXCEPT ![CellOf(m)].state = "running"]
       /\ tag' = [tag EXCEPT ![t] = m]
  /\ pc' = [pc EXCEPT ![t] = "init"]
  /\ UNCHANGED <<clock, rustc, envSteps, unit, queries, seen, emitted,
                 repeated, before, after>>

\* Lazy::deref by a macro called at site t, cell being initialised by
\* another caller: this caller waits.
LazyWait(t) ==
  /\ NextFree(t)
  /\ after = NoSample
  /\ \E m \in unit :
       /\ cells[CellOf(m)].state = "running"
       /\ tag' = [tag EXCEPT ![t] = m]
  /\ pc' = [pc EXCEPT ![t] = "deref"]
  /\ UNCHANGED <<clock, rustc, envSteps, cells, unit, queries, seen, emitted,
                 repeated, before, after>>

\* The initialiser runs: the host is queried and the result is stored.
LazyInit(t) ==
  /\ pc[t] = "init"
  /\ LET c == CellOf(tag[t])
     IN  /\ cells' = [cells EXCEPT ![c].value = HostQuery(c)]
         /\ queries' = [queries EXCEPT ![c] = @ + 1]
  /\ pc' = [pc EXCEPT ![t] = "publish"]
  /\ UNCHANGED <<clock, rustc, envSteps, unit, tag, seen, emitted, repeated,
                 before, after>>

\* The cell is marked complete; waiting callers may proceed.
LazyPublish(t) ==
  /\ pc[t] = "publish"
  /\ LET c == CellOf(tag[t])
     IN  cells' = [cells EXCEPT ![c].state = "complete"]
  /\ pc' = [pc EXCEPT ![t] = "deref"]
  /\ UNCHANGED <<clock, rustc, envSteps, unit, tag, queries, seen, emitted,
                 repeated, before, after>>

\* Macro m runs at site t with its static ready: either called now, or
\* resumed after initialising or waiting.
InBody(t, m) ==
  /\ m \in unit
  /\ after = NoSample
  /\ NextFree(t) \/ (pc[t] = "deref" /\ tag[t] = m)
  /\ IsReady(cells[CellOf(m)])

\* Macro m returns `tokens` (or panics with it) and the site is done.
Return(t, m, tokens) ==
  /\ emitted' = [emitted EXCEPT ![m] = @ \cup {tokens}]
  /\ seen' = [seen EXCEPT ![CellOf(m)] = @ \cup {Force(CellOf(m))}]
  /\ repeated' = [repeated EXCEPT ![CellOf(m)] =
                    @ \/ (/\ emitted[m] # {}
                          /\ HostQuery(CellOf(m)) # cells[CellOf(m)].value)]
  /\ pc' = [pc EXCEPT ![t] = "idle"]
  /\ tag' = [tag EXCEPT ![t] = "none"]
  /\ UNCHANGED <<clock, rustc, envSteps, cells, unit, queries, before, after>>

-----------------------------------------------------------------------------
(* The macros: what each returns for the value of its static *)

StrLit(chars) == [kind |-> "Str", chars |-> chars]

IntLit(n) == [kind |-> "Int", value |-> n]

\* panic!("Failed to get version: {}", err)
Panic(err) == [kind |-> "Panic", msg |-> <<"Failed to get version: ", err>>]

\* match ::time::Date::from_calendar_date(#year, ::time::Month::#month, #day)
DateQuote(year, month, day) ==
  [kind |-> "Date", year |-> year, month |-> MonthDebug(month), day |-> day]

\* match ::time::Time::from_hms(#hour, #minute, #second)
TimeQuote(hour, minute, second) ==
  [kind |-> "Time", hour |-> hour, minute |-> minute, second |-> second]

DateTokens(ct) ==
  LET d == DateOf(ct)
  IN  DateQuote(d.year, DateMonth(d), DateDay(d))

DateStrTokens(ct) == StrLit(FormatDate(DateOf(ct)))

TimeTokens(ct) ==
  LET tm == TimeOf(ct)
  IN  TimeQuote(tm.hour, tm.minute, tm.second)

TimeStrTokens(ct) == StrLit(FormatTime(TimeOf(ct)))

\* ::time::PrimitiveDateTime::new(#date, #time).assume_utc()
DatetimeTokens(ct) ==
  [kind |-> "DateTime",
   date |-> DateQuote(ct.year, DateMonth(DateOf(ct)), DateDay(DateOf(ct))),
   time |-> TimeQuote(ct.hour, ct.minute, ct.second)]

DatetimeStrTokens(ct) == StrLit(FormatDateTime(ct))

\* unix! from a fresh reading of the clock.
UnixTokensFresh(ct) == IntLit(clock.secs)

UnixTokens(ct) == IntLit(unix_timestamp(ct))

\* ::semver::Prerelease::EMPTY, or Prerelease::new(#pre) with its fallback;
\* likewise for BuildMetadata.
IdentQuote(s) ==
  IF Len(s) = 0 THEN [ctor |-> "EMPTY"] ELSE [ctor |-> "new", arg |-> s]

RustcVersionTokens(rv) ==
  IF ~rv.ok THEN Panic(rv.err)
  ELSE [kind |-> "Version",
        major |-> rv.version.major, minor |-> rv.version.minor,
        patch |-> rv.version.patch,
        pre |-> IdentQuote(rv.version.pre),
        build |-> IdentQuote(rv.version.build)]

RustcVersionStrTokens(rv) ==
  IF ~rv.ok THEN Panic(rv.err) ELSE StrLit(VersionToString(rv.version))

RustcVersionMajorTokens(rv) ==
  IF ~rv.ok THEN Panic(rv.err) ELSE IntLit(rv.version.major)

RustcVersionMinorTokens(rv) ==
  IF ~rv.ok THEN Panic(rv.err) ELSE IntLit(rv.version.minor)

\* rustc_version_patch! returning the minor version.
RustcVersionPatchTokensMinor(rv) ==
  IF ~rv.ok THEN Panic(rv.err) ELSE IntLit(rv.version.minor)

RustcVersionPatchTokens(rv) ==
  IF ~rv.ok THEN Panic(rv.err) ELSE IntLit(rv.version.patch)

\* rustc_version_pre! defaulting to the empty string on failure.
RustcVersionPreTokensLenient(rv) ==
  IF ~rv.ok THEN StrLit(<<>>) ELSE StrLit(rv.version.pre)

RustcVersionPreTokens(rv) ==
  IF ~rv.ok THEN Panic(rv.err) ELSE StrLit(rv.version.pre)

RustcVersionBuildTokens(rv) ==
  IF ~rv.ok THEN Panic(rv.err) ELSE StrLit(rv.version.build)

date(t) ==
  /\ InBody(t, "date")
  /\ Return(t, "date", DateTokens(Force("COMPILE_TIME")))

date_str(t) ==
  /\ InBody(t, "date_str")
  /\ Return(t, "date_str", DateStrTokens(Force("COMPILE_TIME")))

time(t) ==
  /\ InBody(t, "time")
  /\ Return(t, "time", TimeTokens(Force("COMPILE_TIME")))

time_str(t) ==
  /\ InBody(t, "time_str")
  /\ Return(t, "time_str", TimeStrTokens(Force("COMPILE_TIME")))

datetime(t) ==
  /\ InBody(t, "datetime")
  /\ Return(t, "datetime", DatetimeTokens(Force("COMPILE_TIME")))

datetime_str(t) ==
  /\ InBody(t, "datetime_str")
  /\ Return(t, "datetime_str", DatetimeStrTokens(Force("COMPILE_TIME")))

unix(t) ==
  /\ InBody(t, "unix")
  /\ Return(t, "unix", UnixTokens(Force("COMPILE_TIME")))

rustc_version(t) ==
  /\ InBody(t, "rustc_version")
  /\ Return(t, "rustc_version", RustcVersionTokens(Force("RUSTC_VERSION")))

rustc_version_str(t) ==
  /\ InBody(t, "rustc_version_str")
  /\ Return(t, "rustc_version_str",
            RustcVersionStrTokens(Force("RUSTC_VERSION")))

rustc_version_major(t) ==
  /\ InBody(t, "rustc_version_major")
  /\ Return(t, "rustc_version_major",
            RustcVersionMajorTokens(Force("RUSTC_VERSION")))

rustc_version_minor(t) ==
  /\ InBody(t, "rustc_version_minor")
  /\ Return(t, "rustc_version_minor",
            RustcVersionMinorTokens(Force("RUSTC_VERSION")))

rustc_version_patch(t) ==
  /\ InBody(t, "rustc_version_patch")
  /\ Return(t, "rustc_version_patch",
            RustcVersionPatchTokens(Force("RUSTC_VERSION")))

rustc_version_pre(t) ==
  /\ InBody(t, "rustc_version_pre")
  /\ Return(t, "rustc_version_pre",
            RustcVersionPreTokens(Force("RUSTC_VERSION")))

rustc_version_build(t) ==
  /\ InBody(t, "rustc_version_build")
  /\ Return(t, "rustc_version_build",
            RustcVersionBuildTokens(Force("RUSTC_VERSION")))

\* tests::datetime_range: the compiled test samples the host clock.  It runs
\* once the build is over and COMPILE_DATETIME has been expanded.
datetime_range ==
  /\ after = NoSample
  /\ \A t \in Sites : pc[t] = "idle"
  /\ emitted["datetime"] # {}
  /\ after' = clock
  /\ UNCHANGED <<clock, rustc, envSteps, cells, unit, pc, tag, queries, seen,
                 emitted, repeated, before>>

TimeMacroStep(t) ==
  \/ date(t)
  \/ date_str(t)
  \/ time(t)
  \/ time_str(t)
  \/ datetime(t)
  \/ datetime_str(t)
  \/ unix(t)

VersionMacroStep(t) ==
  \/ rustc_version(t)
  \/ rustc_version_str(t)
  \/ rustc_version_major(t)
  \/ rustc_version_minor(t)
  \/ rustc_version_patch(t)
  \/ rustc_version_pre(t)
  \/ rustc_version_build(t)

Next ==
  \/ Tick
  \/ ToolchainChange
  \/ datetime_range
  \/ \E t \in Sites :
       \/ LazyClaim(t)
       \/ LazyWait(t)
       \/ LazyInit(t)
       \/ LazyPublish(t)
       \/ TimeMacroStep(t)
       \/ VersionMacroStep(t)

Spec == Init /\ [][Next]_vars

\* Expansion on a single thread, as the compiler runs it.
NextViews ==
  \/ Tick
  \/ ToolchainChange
  \/ datetime_range
  \/ LazyClaim(1)
  \/ LazyInit(1)
  \/ LazyPublish(1)
  \/ TimeMacroStep(1)
  \/ VersionMacroStep(1)

SpecViews == InitViews /\ [][NextViews]_vars

-----------------------------------------------------------------------------
(* Reference conversions the properties are stated with *)

\* The proleptic Gregorian date of a day number counted from 1970-01-01.
CivilFromDays(days) ==
  LET z   == days + 719468
      era == z \div 146097
      doe == z - era * 146097
      yoe == (doe - (doe \div 1460) + (doe \div 36524) - (doe \div 146096))
               \div 365
      doy == doe - (365 * yoe + (yoe \div 4) - (yoe \div 100))
      mp  == (5 * doy + 2) \div 153
      d   == doy - ((153 * mp + 2) \div 5) + 1
      m   == IF mp < 10 THEN mp + 3 ELSE mp - 9
  IN  [year |-> yoe + era * 400 + (IF m <= 2 THEN 1 ELSE 0),
       month |-> m, day |-> d]

\* The UTC calendar fields of a UNIX timestamp.
FieldsOfUnix(secs) ==
  LET c   == CivilFromDays(secs \div 86400)
      sod == secs % 86400
  IN  [year |-> c.year, month |-> c.month, day |-> c.day,
       hour |-> sod \div 3600, minute |-> (sod % 3600) \div 60,
       second |-> sod % 60]

\* The fields a datetime! expansion constructs its value from.
FieldsOfDatetime(lit) ==
  [year |-> lit.date.year, month |-> MonthNumber(lit.date.month),
   day |-> lit.date.day, hour |-> lit.time.hour,
   minute |-> lit.time.minute, second |-> lit.time.second]

\* format!("{:0w$}", n) of the test crate, digit by digit.
RECURSIVE Fmt0(_, _)
Fmt0(n, w) ==
  IF w <= 1 /\ n < 10 THEN <<DigitChars[n + 1]>>
  ELSE Fmt0(n \div 10, w - 1) \o <<DigitChars[(n % 10) + 1]>>

Literals(m) == {e \in emitted[m] : e.kind # "Panic"}

Panics(m) == {e \in emitted[m] : e.kind = "Panic"}

CT == cells["COMPILE_TIME"]

RV == cells["RUSTC_VERSION"]

VersionFailed == RV.state = "complete" /\ ~RV.value.ok

-----------------------------------------------------------------------------
(* Properties *)

\* C1: each host query (clock read, rustc run) is performed at most once in
\* a build, and all expansions of one macro return the same tokens, however
\* far the host has moved on between them.
C1_QueriedOnceSameTokens ==
  /\ \A c \in CellNames : queries[c] <= 1
  /\ \A m \in Macros : Cardinality(emitted[m]) <= 1

\* A time macro returned again after the clock had moved to another second.
C1_Witness ==
  /\ repeated["COMPILE_TIME"]
  /\ queries["COMPILE_TIME"] = 1
  /\ clock.secs # unix_timestamp(CT.value)

\* C2: when several sites dereference a static before it is initialised,
\* exactly one of them runs the initialiser, and every macro body gets that
\* one stored value from a completed cell.
C2_OneCaptureSeenByAll ==
  \A c \in CellNames :
    /\ Cardinality({t \in Sites : pc[t] \in {"init", "publish"}
                                    /\ CellOf(tag[t]) = c}) <= 1
    /\ queries[c] <= 1
    /\ seen[c] # {} =>
         /\ queries[c] = 1
         /\ cells[c].state = "complete"
         /\ seen[c] = {cells[c].value}
         /\ NoValue \notin seen[c]

\* One site initialised the static and its macro returned while another
\* site, which had found the static being initialised, is still to resume.
C2_Witness ==
  \E t \in Sites :
    /\ pc[t] = "deref"
    /\ cells[CellOf(tag[t])].state = "complete"
    /\ seen[CellOf(tag[t])] # {}
    /\ \A u \in Sites \ {t} : pc[u] = "idle"

\* C3: a failed version query is memoized: rustc is run once, every version
\* macro panics with that one error, and none returns tokens.
C3_FailureMemoized ==
  /\ queries["RUSTC_VERSION"] <= 1
  /\ VersionFailed =>
       /\ queries["RUSTC_VERSION"] = 1
       /\ \A m \in VersionMacros : emitted[m] \subseteq {Panic(RV.value.err)}

\* The query failed, the host's rustc works by now, and a version macro
\* that had panicked was expanded again.
C3_Witness ==
  /\ VersionFailed
  /\ version(rustc).ok
  /\ repeated["RUSTC_VERSION"]
  /\ \E m \in VersionMacros : Panics(m) # {}

\* C4: datetime_str! is date_str! followed by "T", time_str! and "Z".
C4_DatetimeStrIsDateTTimeZ ==
  \A d \in emitted["date_str"], tm \in emitted["time_str"],
     dt \in emitted["datetime_str"] :
    dt.chars = d.chars \o <<"T">> \o tm.chars \o <<"Z">>

\* The three strings were expanded and the clock has since moved on.
C4_Witness ==
  /\ emitted["date_str"] # {}
  /\ emitted["time_str"] # {}
  /\ emitted["datetime_str"] # {}
  /\ clock.secs # unix_timestamp(CT.value)

\* C5: the UTC calendar fields of unix! are the fields datetime! constructs
\* its value from.
C5_UnixRoundTrip ==
  \A u \in emitted["unix"], dt \in emitted["datetime"] :
    FieldsOfUnix(u.value) = FieldsOfDatetime(dt)

\* Both were expanded, one of them again after the clock had moved to
\* another second.
C5_Witness ==
  /\ emitted["unix"] # {}
  /\ emitted["datetime"] # {}
  /\ repeated["COMPILE_TIME"]
  /\ clock.secs # unix_timestamp(CT.value)

\* C6: each string macro is the zero-padded rendering of the fields of the
\* matching structured macro.
C6_StringsRenderFields ==
  /\ \A d \in emitted["date"], s \in emitted["date_str"] :
       s.chars = Fmt0(d.year, 4) \o <<"-">> \o Fmt0(MonthNumber(d.month), 2)
                   \o <<"-">> \o Fmt0(d.day, 2)
  /\ \A tm \in emitted["time"], s \in emitted["time_str"] :
       s.chars = Fmt0(tm.hour, 2) \o <<":">> \o Fmt0(tm.minute, 2)
                   \o <<":">> \o Fmt0(tm.second, 2)
  /\ \A dt \in emitted["datetime"], s \in emitted["datetime_str"] :
       LET f == FieldsOfDatetime(dt)
       IN  s.chars = Fmt0(f.year, 4) \o <<"-">> \o Fmt0(f.month, 2)
                       \o <<"-">> \o Fmt0(f.day, 2) \o <<"T">>
                       \o Fmt0(f.hour, 2) \o <<":">> \o Fmt0(f.minute, 2)
                       \o <<":">> \o Fmt0(f.second, 2) \o <<"Z">>

\* All six were expanded at an instant whose month, day and minute need
\* padding.
C6_Witness ==
  /\ \A m \in TimeMacros \ {"unix"} : emitted[m] # {}
  /\ \E dt \in emitted["datetime"] :
       LET f == FieldsOfDatetime(dt)
       IN  f.month < 10 /\ f.day < 10 /\ f.minute < 10

\* The day number, counted from 1970-01-01, of a proleptic Gregorian date.
DaysFromCivil(year, month, day) ==
  LET y   == IF month <= 2 THEN year - 1 ELSE year
      era == y \div 400
      yoe == y - era * 400
      mp  == IF month > 2 THEN month - 3 ELSE month + 9
      doy == ((153 * mp + 2) \div 5) + day - 1
      doe == yoe * 365 + (yoe \div 4) - (yoe \div 100) + doy
  IN  era * 146097 + doe - 719468

\* The whole second of the instant a datetime! expansion denotes.
SecondsOfDatetime(lit) ==
  LET f == FieldsOfDatetime(lit)
  IN  DaysFromCivil(f.year, f.month, f.day) * 86400
        + f.hour * 3600 + f.minute * 60 + f.second

IdentString(q) == IF q.ctor = "EMPTY" THEN <<>> ELSE q.arg

\* C8: every version macro projects the one cached version:
\* rustc_version_str! is "major.minor.patch" of the integers the three
\* number macros return, then "-" and rustc_version_pre! unless that is
\* empty, then "+" and rustc_version_build! unless that is empty; and
\* rustc_version! carries the same five parts.
C8_VersionViewsAgree ==
  \A ma \in Literals("rustc_version_major"),
     mi \in Literals("rustc_version_minor"),
     pa \in Literals("rustc_version_patch"),
     pr \in Literals("rustc_version_pre"),
     bu \in Literals("rustc_version_build") :
    /\ \A s \in Literals("rustc_version_str") :
         s.chars =
           NatToStr(ma.value) \o <<".">> \o NatToStr(mi.value) \o <<".">>
             \o NatToStr(pa.value)
             \o (IF pr.chars # <<>> THEN <<"-">> \o pr.chars ELSE <<>>)
             \o (IF bu.chars # <<>> THEN <<"+">> \o bu.chars ELSE <<>>)
    /\ \A v \in Literals("rustc_version") :
         /\ v.major = ma.value /\ v.minor = mi.value /\ v.patch = pa.value
         /\ IdentString(v.pre) = pr.chars
         /\ IdentString(v.build) = bu.chars
         /\ (v.pre.ctor = "EMPTY") = (pr.chars = <<>>)
         /\ (v.build.ctor = "EMPTY") = (bu.chars = <<>>)

\* Every version macro returned tokens for a version that has a prerelease
\* and build metadata.
C8_Witness ==
  /\ \A m \in VersionMacros : Literals(m) # {}
  /\ \E pr \in Literals("rustc_version_pre") : pr.chars # <<>>
  /\ \E bu \in Literals("rustc_version_build") : bu.chars # <<>>

\* C9: the fields in every structured expansion pass the validation of the
\* constructor they are handed to, so no fallback branch is reached.
C9_FallbackUnreachable ==
  /\ \A d \in emitted["date"] : from_calendar_date_ok(d.year, d.month, d.day)
  /\ \A tm \in emitted["time"] : from_hms_ok(tm.hour, tm.minute, tm.second)
  /\ \A dt \in emitted["datetime"] :
       /\ from_calendar_date_ok(dt.date.year, dt.date.month, dt.date.day)
       /\ from_hms_ok(dt.time.hour, dt.time.minute, dt.time.second)
  /\ \A v \in Literals("rustc_version") :
       /\ v.pre.ctor = "new" => Len(v.pre.arg) > 0 /\ PrereleaseOk(v.pre.arg)
       /\ v.build.ctor = "new" =>
            Len(v.build.arg) > 0 /\ BuildMetadataOk(v.build.arg)

\* All four structured macros returned tokens, on the first day of a month,
\* for a version with a prerelease and build metadata.
C9_Witness ==
  /\ \E d \in emitted["date"] : d.day = 1
  /\ emitted["time"] # {}
  /\ \E dt \in emitted["datetime"] : dt.date.day = 1
  /\ \E v \in Literals("rustc_version") :
       v.pre.ctor = "new" /\ v.build.ctor = "new"

\* The step is one of a macro in `macros`: a site moves in or out of such a
\* macro, or such a macro returns at once.
ViewStep(macros) ==
  \/ \E t \in Sites :
       /\ pc'[t] # pc[t] \/ tag'[t] # tag[t]
       /\ tag[t] \in macros \/ tag'[t] \in macros
  \/ \E m \in macros : emitted'[m] # emitted[m]

\* C10: the two statics are independent.  In every step: a step of a time
\* macro neither runs rustc nor changes the version static; a step of a
\* version macro neither reads the clock nor changes the time static; no
\* time macro has panicked; and with the version failure memoized and the
\* time static ready, a free site can expand a time macro of the crate.
C10_StaticsIndependent ==
  [][/\ ViewStep(TimeMacros) =>
          /\ cells'["RUSTC_VERSION"] = cells["RUSTC_VERSION"]
          /\ queries'["RUSTC_VERSION"] = queries["RUSTC_VERSION"]
          /\ seen'["RUSTC_VERSION"] = seen["RUSTC_VERSION"]
     /\ ViewStep(VersionMacros) =>
          /\ cells'["COMPILE_TIME"] = cells["COMPILE_TIME"]
          /\ queries'["COMPILE_TIME"] = queries["COMPILE_TIME"]
          /\ seen'["COMPILE_TIME"] = seen["COMPILE_TIME"]
     /\ \A m \in TimeMacros : {e \in emitted'[m] : e.kind = "Panic"} = {}
     /\ \A t \in Sites :
          (/\ VersionFailed
           /\ IsReady(CT)
           /\ NextFree(t)
           /\ after = NoSample
           /\ unit \cap TimeMacros # {})
            => \E m \in TimeMacros : InBody(t, m)]_vars

\* The version query failed and a version macro panicked, and a time macro
\* of the same crate returned its tokens.
C10_Witness ==
  /\ VersionFailed
  /\ \E m \in VersionMacros : Panics(m) # {}
  /\ \E m \in TimeMacros : Literals(m) # {}
  /\ queries["RUSTC_VERSION"] = 1
  /\ queries["COMPILE_TIME"] = 1

=============================================================================
